---- MODULE Spec2Model ----
(***************************************************************************)
(* Weather bot: the HTTP client with bounded retry (WeatherService), the   *)
(* normalisation of the provider's payloads, the per-day forecast          *)
(* aggregation and the chat handler that renders the outcome.              *)
(*                                                                         *)
(* Units.  Temperatures are counted in tenths of a degree, timestamps in   *)
(* half-days (12 h), so that several timestamps fall on one calendar date. *)
(***************************************************************************)
EXTENDS Integers, Sequences, FiniteSets, TLC

VARIABLES
    max_retries,      \* Config.max_retries
    api,              \* which fetch is running: "none", "current", "forecast"
    pc,               \* position of the fetch and of the handler around it
    attempt,          \* loop variable of _make_request
    responses,        \* history: the answer of every HTTP attempt, in order
    delays,           \* history: number of asyncio.sleep(1) taken
    data,             \* value returned by _make_request
    result,           \* value returned (or exception raised) by get_*
    shown,            \* message the chat handler ends with
    forecast_list,    \* aggregator: the samples consumed so far
    daily_forecasts,  \* aggregator: the insertion-ordered dict of day groups
    agg_pc,           \* aggregator: "off", "loop", "done"
    forecasts,        \* aggregator: the returned list of day records
    user_favorites,   \* WeatherBot.user_favorites: user id -> list of cities
    calls,            \* history: number of fetches the handlers have finished
    session,          \* WeatherService.session: 0 for None, else the session's id
    closed,           \* ids of the ClientSessions that have been closed
    created,          \* history: number of ClientSessions constructed
    task_pc,          \* concurrent requests: position of each task
    task_attempt,     \* concurrent requests: loop variable of each task
    task_session,     \* concurrent requests: local `session` of each task
    other_ran,        \* history: what the other task did during a task's delay
    on_closed,        \* history: the task's latest attempt was issued on a closed session
    fsm,              \* the user's FSM state: "none" or one of WeatherStates
    handlers,         \* the running handlers of the user's messages, one per task
    pending,          \* history: the waiting state the user's latest command asked for
    routed            \* history: the latest message and the handler it was given to

vars == <<max_retries, api, pc, attempt, responses, delays, data, result, shown,
          forecast_list, daily_forecasts, agg_pc, forecasts,
          user_favorites, calls,
          session, closed, created, task_pc, task_attempt, task_session, other_ran,
          on_closed,
          fsm, handlers, pending, routed>>

clientVars == <<max_retries, api, pc, attempt, responses, delays, data, result, shown>>
aggVars == <<forecast_list, daily_forecasts, agg_pc, forecasts>>
botVars == <<user_favorites, calls>>
dialogVars == <<fsm, handlers, pending, routed>>
concVars == <<session, closed, created, task_pc, task_attempt, task_session, other_ran,
             on_closed>>

(***************************************************************************)
(* Bounds of the exploration and constants of the program.                 *)
(***************************************************************************)
RetriesBound == 3
MaxDefects == 1
MaxSamples == 6

DefaultMaxRetries == 3
MaxDays == 5

(***************************************************************************)
(* Payloads.  A JSON body is an object with a set of defects (a key that   *)
(* is missing, null, or an empty array), a falsy value ({} [] null 0) or a *)
(* truthy value that is no object.  None is what _make_request returns     *)
(* when it has no body.                                                    *)
(***************************************************************************)
Defect(path, how) == [path |-> path, how |-> how]

\* The numbers of a current-weather body: main.temp and main.feels_like in
\* tenths of a degree, main.humidity and clouds.all in percent.
Values(temp, feels_like, humidity, clouds) ==
    [temp |-> temp, feels_like |-> feels_like, humidity |-> humidity, clouds |-> clouds]
DefaultValues == Values(204, 198, 47, 40)

None == [json |-> "none", defects |-> {}, list |-> <<>>, values |-> DefaultValues]
FalsyJson == [json |-> "falsy", defects |-> {}, list |-> <<>>, values |-> DefaultValues]
ScalarJson == [json |-> "scalar", defects |-> {}, list |-> <<>>, values |-> DefaultValues]

Truthy(d) == d.json \in {"object", "scalar"}

\* The subsets of S with at most n elements.
RECURSIVE UpTo(_, _)
UpTo(S, n) ==
    IF n = 0 THEN {{}}
    ELSE LET smaller == UpTo(S, n - 1)
         IN  smaller \cup {D \cup {x} : D \in smaller, x \in S}

\* Python's round(x) on a float given in tenths: to the nearest integer,
\* a tie to the even one.
Round(t) ==
    LET q == t \div 10
        r == t % 10
    IN  IF r < 5 THEN q
        ELSE IF r > 5 THEN q + 1
        ELSE IF q % 2 = 0 THEN q ELSE q + 1

\* No path carries two defects.
Consistent(D) == \A x \in D, y \in D : x.path = y.path => x = y

(***************************************************************************)
(* _format_current_weather.  The expressions of the function in the order  *)
(* Python evaluates them, each with the defect that makes it raise and the *)
(* exception raised.  wind, clouds and visibility are read with .get and a *)
(* default: a missing key raises nothing there.                            *)
(***************************************************************************)
CurrentEval ==
    << <<"main", "missing", "KeyError">>,
       <<"weather", "missing", "KeyError">>,
       <<"weather", "empty", "IndexError">>,
       <<"name", "missing", "KeyError">>,
       <<"sys", "missing", "KeyError">>,
       <<"sys.country", "missing", "KeyError">>,
       <<"main.temp", "missing", "KeyError">>,
       <<"main.temp", "null", "TypeError">>,
       <<"main.feels_like", "missing", "KeyError">>,
       <<"main.feels_like", "null", "TypeError">>,
       <<"weather[0].description", "missing", "KeyError">>,
       <<"weather[0].description", "null", "AttributeError">>,
       <<"weather[0].icon", "missing", "KeyError">>,
       <<"main.humidity", "missing", "KeyError">>,
       <<"main.pressure", "missing", "KeyError">>,
       <<"wind", "null", "AttributeError">>,
       <<"clouds", "null", "AttributeError">>,
       <<"visibility", "null", "TypeError">>,
       <<"sys.sunrise", "missing", "KeyError">>,
       <<"sys.sunrise", "null", "TypeError">>,
       <<"sys.sunset", "missing", "KeyError">>,
       <<"sys.sunset", "null", "TypeError">>,
       <<"timezone", "missing", "KeyError">> >>

\* Keys read with a default: absent, they raise nothing.
OptionalKeys == {"wind", "clouds", "visibility"}

CurrentDefects ==
    {Defect(CurrentEval[i][1], CurrentEval[i][2]) : i \in DOMAIN CurrentEval}
        \cup {Defect(k, "missing") : k \in OptionalKeys}

\* The keys the record cannot be built without.
RequiredKeys == {CurrentEval[i][1] : i \in {j \in DOMAIN CurrentEval : CurrentEval[j][3] = "KeyError"}}

\* The exception of the first expression of `order` that raises on an object
\* with defects D, "none" when every expression evaluates.
RECURSIVE FirstError(_, _)
FirstError(D, order) ==
    IF order = <<>> THEN "none"
    ELSE IF Defect(Head(order)[1], Head(order)[2]) \in D THEN Head(order)[3]
    ELSE FirstError(D, Tail(order))

\* The numbers of a result that is no current-weather record.
NoWeather == [temperature |-> 0, feels_like |-> 0, humidity |-> 0, cloudiness |-> 0]

EmptyDict == [tag |-> "empty", exc |-> "none", forecasts |-> <<>>, weather |-> NoWeather]
NoneResult == [tag |-> "none", exc |-> "none", forecasts |-> <<>>, weather |-> NoWeather]
Raised(e) == [tag |-> "raise", exc |-> e, forecasts |-> <<>>, weather |-> NoWeather]

\* CurrentRecord with the temperatures as the provider sent them.
CurrentRecordUnrounded(d) ==
    [temperature |-> d.values.temp,
     feels_like |-> d.values.feels_like,
     humidity |-> d.values.humidity,
     cloudiness |-> IF Defect("clouds", "missing") \in d.defects THEN 0 ELSE d.values.clouds]

\* Lines 112-129: the numbers of the record.  The temperatures stay in
\* tenths of a degree, so that a value that is no whole degree can be told
\* from one that is; humidity is copied, cloudiness is clouds.get('all', 0).
CurrentRecord(d) ==
    [temperature |-> 10 * Round(d.values.temp),
     feels_like |-> 10 * Round(d.values.feels_like),
     humidity |-> d.values.humidity,
     cloudiness |-> IF Defect("clouds", "missing") \in d.defects THEN 0 ELSE d.values.clouds]

Record(d) == [tag |-> "record", exc |-> "none", forecasts |-> <<>>, weather |-> CurrentRecord(d)]

\* FormatCurrentWeather without its except clause.
FormatCurrentWeatherUncaught(d) ==
    IF d.json = "scalar" THEN Raised("TypeError")
    ELSE LET e == FirstError(d.defects, CurrentEval)
         IN  IF e = "none" THEN Record(d) ELSE Raised(e)

\* try: ... except KeyError: return {}.  A value that is no object cannot
\* be subscripted by a string: TypeError.
FormatCurrentWeather(d) ==
    IF d.json = "scalar" THEN Raised("TypeError")
    ELSE LET e == FirstError(d.defects, CurrentEval)
         IN  IF e = "none" THEN Record(d)
             ELSE IF e = "KeyError" THEN EmptyDict
             ELSE Raised(e)

\* get_current_weather, after _make_request has returned d.
GetCurrentWeather(d) == IF Truthy(d) THEN FormatCurrentWeather(d) ELSE NoneResult

\* The numbers the provider sends: temperatures on both sides of zero, on a
\* whole degree, half a degree and between; percentages at both ends of
\* their range, inside it and, against the provider's contract, above it.
WeatherValues ==
    {Values(t, f, h, c) : t \in {-5, 15, 204}, f \in {-20, 198},
                          h \in {0, 47, 100, 120}, c \in {0, 100}}

CurrentPayloads ==
    {[json |-> "object", defects |-> D, list |-> <<>>, values |-> DefaultValues] :
        D \in {E \in UpTo(CurrentDefects, MaxDefects) : Consistent(E)}}
        \cup {[json |-> "object", defects |-> D, list |-> <<>>, values |-> v] :
                 D \in {{}, {Defect("clouds", "missing")}}, v \in WeatherValues}
        \cup {FalsyJson, ScalarJson}

(***************************************************************************)
(* _format_forecast_data.  A sample is one entry of the payload's list:    *)
(* dt in half-days, temp in tenths of a degree, humidity in percent, wind  *)
(* in m/s, and the defects of its JSON.                                    *)
(***************************************************************************)
Sample(dt, temp, desc, icon, D) ==
    [dt |-> dt, temp |-> temp, humidity |-> 50, wind |-> 3,
     description |-> desc, main |-> "Clouds", icon |-> icon, defects |-> D]

\* datetime.fromtimestamp(dt).strftime('%Y-%m-%d'): the calendar day of a
\* timestamp; the two half-days of a day share one key.
DateKey(dt) == dt \div 2

\* round(total / n) for integers: the quotient to the nearest integer, a
\* tie to the even one.
RoundDiv(total, n) ==
    LET q == total \div n
        r == total % n
    IN  IF 2 * r < n THEN q
        ELSE IF 2 * r > n THEN q + 1
        ELSE IF q % 2 = 0 THEN q ELSE q + 1

RECURSIVE Sum(_)
Sum(s) == IF s = <<>> THEN 0 ELSE Head(s) + Sum(Tail(s))

Min2(a, b) == IF a <= b THEN a ELSE b
Max2(a, b) == IF a >= b THEN a ELSE b

\* str.title() on the descriptions the provider sends.
Title(desc) ==
    CASE desc = "broken clouds" -> "Broken Clouds"
      [] desc = "clear sky" -> "Clear Sky"
      [] desc = "Clear sky" -> "Clear Sky"
      [] OTHER -> desc

\* IndexOf looking at the group added last only, which groups runs of
\* consecutive samples instead of dates.
IndexOfLast(daily, k) ==
    IF daily # <<>> /\ daily[Len(daily)].key = k THEN Len(daily) ELSE 0

\* Position of the group of date key k in the insertion-ordered dict, 0 when
\* the key is not in it.
IndexOf(daily, k) ==
    IF \E i \in DOMAIN daily : daily[i].key = k
    THEN CHOOSE i \in DOMAIN daily : daily[i].key = k
    ELSE 0

\* Lines 144-157: the expressions evaluated for the first sample of a day,
\* up to the creation of its group.
NewDayEval ==
    << <<"main", "missing", "KeyError">>,
       <<"main.temp", "missing", "KeyError">>,
       <<"weather", "missing", "KeyError">>,
       <<"weather", "empty", "IndexError">>,
       <<"weather[0].main", "missing", "KeyError">>,
       <<"weather[0].icon", "missing", "KeyError">> >>

\* Lines 160-164: the expressions evaluated for every sample.
EverySampleEval ==
    << <<"main", "missing", "KeyError">>,
       <<"main.temp", "missing", "KeyError">>,
       <<"main.temp", "null", "TypeError">>,
       <<"weather", "missing", "KeyError">>,
       <<"weather", "empty", "IndexError">>,
       <<"weather[0].description", "missing", "KeyError">>,
       <<"main.humidity", "missing", "KeyError">>,
       <<"wind", "missing", "KeyError">>,
       <<"wind.speed", "missing", "KeyError">> >>

TimestampEval ==
    << <<"dt", "missing", "KeyError">>,
       <<"dt", "null", "TypeError">> >>

\* Lines 148-157: the group a day starts with.
NewGroup(item) ==
    [key |-> DateKey(item.dt), date |-> item.dt,
     temp_min |-> item.temp, temp_max |-> item.temp,
     descriptions |-> <<>>, humidity |-> <<>>, wind_speeds |-> <<>>,
     main_weather |-> item.main, icon |-> item.icon]

\* Folded with min and max exchanged.
FoldedSwapped(g, item) ==
    [g EXCEPT !.temp_min = Max2(g.temp_min, item.temp),
              !.temp_max = Min2(g.temp_max, item.temp),
              !.descriptions = Append(g.descriptions, item.description),
              !.humidity = Append(g.humidity, item.humidity),
              !.wind_speeds = Append(g.wind_speeds, item.wind)]

\* Lines 159-164: fold one sample into its group.
Folded(g, item) ==
    [g EXCEPT !.temp_min = Min2(g.temp_min, item.temp),
              !.temp_max = Max2(g.temp_max, item.temp),
              !.descriptions = Append(g.descriptions, item.description),
              !.humidity = Append(g.humidity, item.humidity),
              !.wind_speeds = Append(g.wind_speeds, item.wind)]

\* FoldItem keeping the temperatures a day started with.
FoldItemSeedOnly(daily, item) ==
    LET i == IndexOf(daily, DateKey(item.dt))
    IN  IF i = 0
        THEN [exc |-> "none", daily |-> Append(daily, Folded(NewGroup(item), item))]
        ELSE [exc |-> "none",
              daily |-> [daily EXCEPT ![i] = [Folded(daily[i], item) EXCEPT
                                                !.temp_min = daily[i].temp_min,
                                                !.temp_max = daily[i].temp_max]]]

\* FoldItem putting a new day in front of the days known so far.
FoldItemPrepend(daily, item) ==
    LET i == IndexOf(daily, DateKey(item.dt))
    IN  IF i = 0
        THEN [exc |-> "none", daily |-> <<Folded(NewGroup(item), item)>> \o daily]
        ELSE [exc |-> "none", daily |-> [daily EXCEPT ![i] = Folded(daily[i], item)]]

\* Lines 143-164: one turn of the loop over forecast_list.  exc names the
\* exception the turn raises, "none" when it completes.
FoldItem(daily, item) ==
    LET e0 == FirstError(item.defects, TimestampEval)
        i == IndexOf(daily, DateKey(item.dt))
        e1 == IF i = 0 THEN FirstError(item.defects, NewDayEval) ELSE "none"
        e2 == FirstError(item.defects, EverySampleEval)
        e == IF e0 # "none" THEN e0 ELSE IF e1 # "none" THEN e1 ELSE e2
    IN  IF e # "none" THEN [exc |-> e, daily |-> daily]
        ELSE IF i = 0
             THEN [exc |-> "none", daily |-> Append(daily, Folded(NewGroup(item), item))]
             ELSE [exc |-> "none", daily |-> [daily EXCEPT ![i] = Folded(daily[i], item)]]

\* Lines 175-178: the description counted most often, the first one counted
\* when several share the highest count (max keeps the first maximum of the
\* insertion-ordered dict), title-cased.
Count(descs, d) == Cardinality({i \in DOMAIN descs : descs[i] = d})
FirstAt(descs, d) == CHOOSE i \in DOMAIN descs : descs[i] = d /\ \A j \in 1..(i - 1) : descs[j] # d
\* MostFrequent keeping the last of the descriptions that share the highest
\* count.
MostFrequentLast(descs) ==
    LET best == CHOOSE d \in {descs[i] : i \in DOMAIN descs} :
                    \A o \in {descs[i] : i \in DOMAIN descs} :
                        \/ Count(descs, d) > Count(descs, o)
                        \/ Count(descs, d) = Count(descs, o) /\ FirstAt(descs, d) >= FirstAt(descs, o)
    IN  Title(best)

MostFrequent(descs) ==
    LET best == CHOOSE d \in {descs[i] : i \in DOMAIN descs} :
                    \A o \in {descs[i] : i \in DOMAIN descs} :
                        \/ Count(descs, d) > Count(descs, o)
                        \/ Count(descs, d) = Count(descs, o) /\ FirstAt(descs, d) <= FirstAt(descs, o)
    IN  Title(best)

\* Lines 167-178: the finished record of one day.
Finalized(g) ==
    [date |-> g.date,
     temp_min |-> Round(g.temp_min),
     temp_max |-> Round(g.temp_max),
     avg_humidity |-> RoundDiv(Sum(g.humidity), Len(g.humidity)),
     avg_wind_speed |-> RoundDiv(10 * Sum(g.wind_speeds), Len(g.wind_speeds)),
     description |-> MostFrequent(g.descriptions),
     main_weather |-> g.main_weather,
     icon |-> g.icon]

\* Lines 167-178: every group is finished, in insertion order.
FinalizeAll(daily) == [i \in DOMAIN daily |-> Finalized(daily[i])]

\* FirstDays without the truncation.
AllDays(days) == days

\* Line 183: list(daily_forecasts.values())[:5].
FirstDays(days) == SubSeq(days, 1, Min2(Len(days), MaxDays))

\* FoldAll leaving out a sample whose turn raises.
RECURSIVE FoldAllSkipping(_, _)
FoldAllSkipping(daily, list) ==
    IF list = <<>> THEN [exc |-> "none", daily |-> daily]
    ELSE LET step == FoldItem(daily, Head(list))
         IN  FoldAllSkipping(step.daily, Tail(list))

\* The loop of lines 143-164 over a whole list, from the groups `daily`.
RECURSIVE FoldAll(_, _)
FoldAll(daily, list) ==
    IF list = <<>> THEN [exc |-> "none", daily |-> daily]
    ELSE LET step == FoldItem(daily, Head(list))
         IN  IF step.exc # "none" THEN step ELSE FoldAll(step.daily, Tail(list))

ByException(e) == IF e = "KeyError" THEN EmptyDict ELSE Raised(e)

\* Lines 137-138, before the loop, and 181-182, after it.
BeforeLoopEval ==
    << <<"city", "missing", "KeyError">>,
       <<"list", "missing", "KeyError">> >>
AfterLoopEval ==
    << <<"city.name", "missing", "KeyError">>,
       <<"city.country", "missing", "KeyError">> >>

ForecastDefects ==
    {Defect(BeforeLoopEval[i][1], BeforeLoopEval[i][2]) : i \in DOMAIN BeforeLoopEval}
        \cup {Defect(AfterLoopEval[i][1], AfterLoopEval[i][2]) : i \in DOMAIN AfterLoopEval}

\* InitialGroups when the dict of day groups outlives the call that filled it.
InitialGroupsKept == daily_forecasts

\* Line 141: daily_forecasts = {}, a dict local to the call.
InitialGroups == <<>>

\* FormatForecastData answering an empty list like a failure.
FormatForecastDataEmptyFails(d) ==
    IF d.json = "scalar" THEN Raised("TypeError")
    ELSE LET e0 == FirstError(d.defects, BeforeLoopEval)
             f == FoldAll(InitialGroups, d.list)
             e1 == FirstError(d.defects, AfterLoopEval)
         IN  IF e0 # "none" THEN ByException(e0)
             ELSE IF f.exc # "none" THEN ByException(f.exc)
             ELSE IF e1 # "none" THEN ByException(e1)
             ELSE IF d.list = <<>> THEN EmptyDict
             ELSE [tag |-> "record", exc |-> "none",
                   forecasts |-> FirstDays(FinalizeAll(f.daily)), weather |-> NoWeather]

\* try: ... except KeyError: return {}.
FormatForecastData(d) ==
    IF d.json = "scalar" THEN Raised("TypeError")
    ELSE LET e0 == FirstError(d.defects, BeforeLoopEval)
             f == FoldAll(InitialGroups, d.list)
             e1 == FirstError(d.defects, AfterLoopEval)
         IN  IF e0 # "none" THEN ByException(e0)
             ELSE IF f.exc # "none" THEN ByException(f.exc)
             ELSE IF e1 # "none" THEN ByException(e1)
             ELSE [tag |-> "record", exc |-> "none",
                   forecasts |-> FirstDays(FinalizeAll(f.daily)), weather |-> NoWeather]

\* The day groups the dict of line 141 holds when _format_forecast_data is
\* left, whichever way; `before` when the function does not get to line 141.
GroupsLeft(d, before) ==
    IF d.json # "object" \/ FirstError(d.defects, BeforeLoopEval) # "none" THEN before
    ELSE FoldAll(InitialGroups, d.list).daily

\* get_forecast, after _make_request has returned d.
GetForecast(d) == IF Truthy(d) THEN FormatForecastData(d) ELSE NoneResult

\* The sample lists the forecast endpoint answers with in the client's
\* specification: well-formed ones and ones with a defective sample.
Good0 == Sample(0, 15, "clear sky", "01d", {})
Good1 == Sample(1, 25, "broken clouds", "04d", {})
Good2 == Sample(2, -5, "clear sky", "01d", {})

\* The keys of a sample every turn of the loop reads.
SampleKeys == {"dt", "main.temp", "main.humidity", "weather[0].description", "wind.speed"}

\* One sample on each of six days, and the same list with one of SampleKeys
\* missing in the first sample, in one of the middle or in the one of the
\* sixth day.
SixDays == [i \in 1..(MaxDays + 1) |-> Sample(2 * i, 15, "clear sky", "01d", {})]
SixDaysOneLacking ==
    {[SixDays EXCEPT ![i] = Sample(2 * i, 15, "clear sky", "01d", {Defect(k, "missing")})] :
        i \in {1, 3, MaxDays + 1}, k \in SampleKeys}

ProbeLists ==
    { <<>>, <<Good0>>, <<Good0, Good1, Good2>>,
      <<Sample(0, 15, "clear sky", "01d", {Defect("weather", "empty")})>>,
      <<Good0, Sample(2, 15, "clear sky", "01d", {Defect("weather", "empty")})>>,
      <<Sample(0, 15, "clear sky", "01d", {Defect("weather[0].main", "missing")})>>,
      <<Good0, Sample(1, 15, "clear sky", "01d", {Defect("weather[0].main", "missing")})>>,
      <<Good0, Sample(1, 15, "clear sky", "01d", {Defect("main.temp", "null")})>>,
      <<Good0, Sample(2, 15, "clear sky", "01d", {Defect("wind.speed", "missing")})>>,
      <<Sample(0, 15, "clear sky", "01d", {Defect("dt", "missing")})>> }
        \cup {SixDays} \cup SixDaysOneLacking

ForecastPayloads ==
    {[json |-> "object", defects |-> D, list |-> l, values |-> DefaultValues] :
        D \in UpTo(ForecastDefects, MaxDefects), l \in ProbeLists}
        \cup {FalsyJson, ScalarJson}

Payloads(a) == IF a = "current" THEN CurrentPayloads ELSE ForecastPayloads

(***************************************************************************)
(* WeatherService._make_request and the two fetches built on it.           *)
(***************************************************************************)
Answer(status, body) == [status |-> status, body |-> body]

\* What an attempt that neither returns a body nor ends the call was
\* answered with.
Transient == {"timeout", "client-error", "500", "200-undecodable"}

AggIdle ==
    /\ forecast_list = <<>>
    /\ daily_forecasts = <<>>
    /\ agg_pc = "off"
    /\ forecasts = <<>>

\* WeatherBot.__init__ (user_favorites = {}) before any handler has run.
NoFavorites == [u \in {} |-> <<>>]
BotIdle ==
    /\ user_favorites = NoFavorites
    /\ calls = 0

\* The tasks that run a request on the one WeatherService at the same time.
Tasks == {1, 2}

\* WeatherService.__init__ (session = None), no request running.
ConcIdle ==
    /\ session = 0
    /\ closed = {}
    /\ created = 0
    /\ task_pc = [t \in Tasks |-> "off"]
    /\ task_attempt = [t \in Tasks |-> 0]
    /\ task_session = [t \in Tasks |-> 0]
    /\ other_ran = [t \in Tasks |-> "none"]
    /\ on_closed = [t \in Tasks |-> FALSE]

\* A slot of `handlers`: which handler runs (kind), for which user and
\* text (city), where it is (pc), and the history of the run: the name it
\* has tried to add with the list before and after, the reply it has
\* chosen (verdict) and shown (reply), whether it has called state.clear(),
\* whether an exception has reached error_handler and the number of
\* messages error_handler has tried to send.
NoHandler ==
    [kind |-> "none", user |-> "none", city |-> "none", pc |-> "free",
     name |-> "none", before |-> <<>>, after |-> <<>>,
     verdict |-> "none", cleared |-> FALSE, reply |-> "none",
     apologies |-> 0, raised |-> FALSE]
NotRouted ==
    [message |-> [text |-> "none", has_text |-> FALSE, marker |-> FALSE],
     handler |-> "none", state |-> "none"]
Users == {"u1", "u2"}

\* MemoryStorage without a state for the user, no handler running.
DialogIdle ==
    /\ fsm = [u \in Users |-> "none"]
    /\ handlers = [t \in Tasks |-> NoHandler]
    /\ pending = [u \in Users |-> "none"]
    /\ routed = NotRouted

Init ==
    /\ max_retries \in 0..RetriesBound
    /\ api = "none"
    /\ pc = "idle"
    /\ attempt = 0
    /\ responses = <<>>
    /\ delays = 0
    /\ data = None
    /\ result = NoneResult
    /\ shown = "nothing"
    /\ AggIdle
    /\ BotIdle
    /\ ConcIdle
    /\ DialogIdle

\* get_current_weather / get_forecast up to the head of the loop of
\* _make_request (line 47).
Call(a) ==
    /\ pc = "idle"
    /\ api' = a
    /\ attempt' = 0
    /\ pc' = "loop"
    /\ UNCHANGED <<max_retries, responses, delays, data, result, shown>>
    /\ UNCHANGED <<aggVars, botVars, concVars, dialogVars>>

\* AfterFailure sleeping after the last turn too.
AfterFailureAlwaysSleeps == pc' = "sleep" /\ attempt' = attempt

\* Lines 66-67 after an attempt that did not return: sleep unless it was
\* the last turn of the loop.
AfterFailure ==
    IF attempt < max_retries - 1
    THEN pc' = "sleep" /\ attempt' = attempt
    ELSE pc' = "loop" /\ attempt' = attempt + 1

\* Respond200 falling through to the retry instead of returning the body.
Respond200NotReturned ==
    /\ pc = "loop"
    /\ attempt < max_retries
    /\ \E body \in Payloads(api) : responses' = Append(responses, Answer("200", body))
    /\ AfterFailure
    /\ UNCHANGED <<max_retries, api, delays, data, result, shown>>
    /\ UNCHANGED <<aggVars, botVars, concVars, dialogVars>>

\* Respond404 handled like any other status.
Respond404Retried ==
    /\ pc = "loop"
    /\ attempt < max_retries
    /\ responses' = Append(responses, Answer("404", None))
    /\ AfterFailure
    /\ UNCHANGED <<max_retries, api, delays, data, result, shown>>
    /\ UNCHANGED <<aggVars, botVars, concVars, dialogVars>>

\* Lines 49-52: status 200 and a body that decodes.
Respond200 ==
    /\ pc = "loop"
    /\ attempt < max_retries
    /\ \E body \in Payloads(api) :
        /\ responses' = Append(responses, Answer("200", body))
        /\ data' = body
    /\ pc' = "returned"
    /\ UNCHANGED <<max_retries, api, attempt, delays, result, shown>>
    /\ UNCHANGED <<aggVars, botVars, concVars, dialogVars>>

\* Lines 53-55: status 404.
Respond404 ==
    /\ pc = "loop"
    /\ attempt < max_retries
    /\ responses' = Append(responses, Answer("404", None))
    /\ data' = None
    /\ pc' = "returned"
    /\ UNCHANGED <<max_retries, api, attempt, delays, result, shown>>
    /\ UNCHANGED <<aggVars, botVars, concVars, dialogVars>>

\* Failed with a loop that takes one turn more than max_retries.
FailedOneMoreTurn(kind) ==
    /\ pc = "loop"
    /\ attempt <= max_retries
    /\ responses' = Append(responses, Answer(kind, None))
    /\ AfterFailure
    /\ UNCHANGED <<max_retries, api, delays, data, result, shown>>
    /\ UNCHANGED <<aggVars, botVars, concVars, dialogVars>>

\* An attempt answered with `kind`, one of Transient.
Failed(kind) ==
    /\ pc = "loop"
    /\ attempt < max_retries
    /\ responses' = Append(responses, Answer(kind, None))
    /\ AfterFailure
    /\ UNCHANGED <<max_retries, api, delays, data, result, shown>>
    /\ UNCHANGED <<aggVars, botVars, concVars, dialogVars>>

\* Lines 56-57: any other status.
RespondOtherStatus == Failed("500")

\* Respond200Undecodable ending the call at once, without a body.
Respond200UndecodableReturned ==
    /\ pc = "loop"
    /\ attempt < max_retries
    /\ responses' = Append(responses, Answer("200-undecodable", None))
    /\ data' = None
    /\ pc' = "returned"
    /\ UNCHANGED <<max_retries, api, attempt, delays, result, shown>>
    /\ UNCHANGED <<aggVars, botVars, concVars, dialogVars>>

\* Line 51 raising: status 200 and a body that is no JSON (caught at 61-64).
Respond200Undecodable == Failed("200-undecodable")

\* Lines 59-60.
RequestTimeout == Failed("timeout")

\* Lines 61-62.
RequestClientError == Failed("client-error")

\* Line 67: asyncio.sleep(1), then the next turn of the loop.
Sleep ==
    /\ pc = "sleep"
    /\ delays' = delays + 1
    /\ attempt' = attempt + 1
    /\ pc' = "loop"
    /\ UNCHANGED <<max_retries, api, responses, data, result, shown>>
    /\ UNCHANGED <<aggVars, botVars, concVars, dialogVars>>

\* Line 69: the loop is over.
Exhausted ==
    /\ pc = "loop"
    /\ attempt >= max_retries
    /\ data' = None
    /\ pc' = "returned"
    /\ UNCHANGED <<max_retries, api, attempt, responses, delays, result, shown>>
    /\ UNCHANGED <<aggVars, botVars, concVars, dialogVars>>

\* Lines 84-86 and 101-103.  daily_forecasts records the day groups the
\* aggregator's local dict held when the call left it.
Format ==
    /\ pc = "returned"
    /\ result' = IF api = "current" THEN GetCurrentWeather(data) ELSE GetForecast(data)
    /\ daily_forecasts' = IF api = "forecast" /\ Truthy(data)
                          THEN GroupsLeft(data, daily_forecasts)
                          ELSE daily_forecasts
    /\ pc' = "done"
    /\ UNCHANGED <<max_retries, api, attempt, responses, delays, data, shown>>
    /\ UNCHANGED <<forecast_list, agg_pc, forecasts>>
    /\ UNCHANGED <<botVars, concVars, dialogVars>>

(***************************************************************************)
(* The chat handlers process_city_weather and process_city_forecast: the   *)
(* message the loading message is replaced by.                             *)
(***************************************************************************)
\* utils.format_forecast_message: line 69 answers "unavailable" for a result
\* without day records.
ForecastText(r) == IF r.forecasts = <<>> THEN "unavailable" ELSE "forecast"

HandlerMessage(a, r) ==
    IF r.tag = "raise" THEN "try-later"
    ELSE IF r.tag = "record" THEN (IF a = "current" THEN "weather" ELSE ForecastText(r))
    ELSE "city-not-found"

Reply ==
    /\ pc = "done"
    /\ shown' = HandlerMessage(api, result)
    /\ pc' = "replied"
    /\ UNCHANGED <<max_retries, api, attempt, responses, delays, data, result>>
    /\ UNCHANGED <<aggVars, botVars, concVars, dialogVars>>

Next ==
    \/ \E a \in {"current", "forecast"} : Call(a)
    \/ Respond200
    \/ Respond404
    \/ RespondOtherStatus
    \/ Respond200Undecodable
    \/ RequestTimeout
    \/ RequestClientError
    \/ Sleep
    \/ Exhausted
    \/ Format
    \/ Reply

Spec == Init /\ [][Next]_vars

\* An attempt comes to its end, whichever way.
AttemptEnds ==
    \/ Respond404
    \/ RequestTimeout
    \/ RequestClientError
    \/ RespondOtherStatus
    \/ Respond200Undecodable
    \/ Respond200

\* Every attempt is answered or times out (ClientTimeout, line 30), every
\* delay ends, and the event loop goes on running the task.
SpecLive ==
    /\ Init
    /\ [][Next]_vars
    /\ WF_vars(AttemptEnds)
    /\ WF_vars(Sleep)
    /\ WF_vars(Exhausted)

(***************************************************************************)
(* The aggregation on its own: the loop of _format_forecast_data fed one   *)
(* well-formed sample per turn, then the finishing of the groups and the   *)
(* truncation.  A sample may lie half a day or a day after the one before  *)
(* it, or a day before it (a list that is not in time order).              *)
(***************************************************************************)
TempValues == {-5, 15}

NextTimestamps ==
    IF forecast_list = <<>> THEN {2}
    ELSE LET last == forecast_list[Len(forecast_list)].dt
         IN  {t \in {last - 2, last + 1, last + 2} : t >= 0}

\* The humidity of the k-th sample of the list: one value per position, so
\* that a sample is recognised in the group that holds it.
SampleHumidity(k) == 40 + k

InitAgg ==
    /\ max_retries = DefaultMaxRetries
    /\ api = "none"
    /\ pc = "idle"
    /\ attempt = 0
    /\ responses = <<>>
    /\ delays = 0
    /\ data = None
    /\ result = NoneResult
    /\ shown = "nothing"
    /\ forecast_list = <<>>
    /\ daily_forecasts = <<>>
    /\ agg_pc = "loop"
    /\ forecasts = <<>>
    /\ BotIdle
    /\ ConcIdle
    /\ DialogIdle

\* Lines 143-164 for the next sample of the list.
FoldNext ==
    /\ agg_pc = "loop"
    /\ Len(forecast_list) < MaxSamples
    /\ \E t \in NextTimestamps, temp \in TempValues :
        LET item == [Sample(t, temp, "clear sky", "01d", {})
                        EXCEPT !.humidity = SampleHumidity(Len(forecast_list) + 1)]
            step == FoldItem(daily_forecasts, item)
        IN  /\ step.exc = "none"
            /\ forecast_list' = Append(forecast_list, item)
            /\ daily_forecasts' = step.daily
    /\ UNCHANGED <<agg_pc, forecasts>>
    /\ UNCHANGED <<clientVars, botVars, concVars, dialogVars>>

\* Lines 166-184 once the list is exhausted.
AggReturn ==
    /\ agg_pc = "loop"
    /\ forecasts' = FirstDays(FinalizeAll(daily_forecasts))
    /\ agg_pc' = "done"
    /\ UNCHANGED <<forecast_list, daily_forecasts>>
    /\ UNCHANGED <<clientVars, botVars, concVars, dialogVars>>

NextAgg == FoldNext \/ AggReturn

SpecAgg == InitAgg /\ [][NextAgg]_vars

(***************************************************************************)
(* The aggregation fed samples whose descriptions differ: a sample lies at *)
(* the timestamp of the one before it or half a day later, and carries one *)
(* of three raw descriptions, two of which differ by case only.            *)
(***************************************************************************)
MaxDescribed == 5

DescValues == {"broken clouds", "clear sky", "Clear sky"}

DescribedTimestamps ==
    IF forecast_list = <<>> THEN {2}
    ELSE LET last == forecast_list[Len(forecast_list)].dt
         IN  {last, last + 1}

\* Lines 143-164 for the next sample of the list.
FoldDescribed ==
    /\ agg_pc = "loop"
    /\ Len(forecast_list) < MaxDescribed
    /\ \E t \in DescribedTimestamps, desc \in DescValues :
        LET item == Sample(t, 15, desc, "01d", {})
            step == FoldItem(daily_forecasts, item)
        IN  /\ step.exc = "none"
            /\ forecast_list' = Append(forecast_list, item)
            /\ daily_forecasts' = step.daily
    /\ UNCHANGED <<agg_pc, forecasts>>
    /\ UNCHANGED <<clientVars, botVars, concVars, dialogVars>>

NextDesc == FoldDescribed \/ AggReturn

SpecDesc == InitAgg /\ [][NextDesc]_vars

(***************************************************************************)
(* Several requests at a time on the one WeatherService, and close().      *)
(* The handlers run as tasks of one event loop: a task runs from one await *)
(* to the next without interruption, so that a step below is what a task   *)
(* does between two awaits.  A ClientSession is known by its number in the *)
(* order of construction.                                                  *)
(***************************************************************************)
MaxSessions == 3

SessionOpen == session # 0 /\ session \notin closed

\* GetSession without the test of session.closed.
GetSessionNeverRenewed == IF session = 0 THEN created + 1 ELSE session

\* Lines 27-32: the session _get_session returns, a new one (numbered
\* created + 1) when there is none or the one there is has been closed.
GetSession == IF session = 0 \/ session \in closed THEN created + 1 ELSE session

\* A delay that holds the event loop: no task runs while another one is in
\* its delay.
RunnableWhenNoneSleeps(t) == \A u \in Tasks \ {t} : task_pc[u] # "sleep"

\* Line 67: await asyncio.sleep(1) hands the event loop back, so whether a
\* task may run does not depend on the other tasks' delays.
Runnable(t) == TRUE

\* What the tasks in their delay have seen of task t: that it started a
\* request, and that it completed the request it started.
Noted(t, event) ==
    [u \in Tasks |->
        IF u = t \/ task_pc[u] # "sleep" THEN other_ran[u]
        ELSE IF event = "started" THEN "started"
        ELSE IF other_ran[u] = "started" THEN "completed"
        ELSE other_ran[u]]

\* Lines 45-47: a request takes the session and enters the loop.
StartRequest(t) ==
    /\ task_pc[t] = "off"
    /\ Runnable(t)
    /\ GetSession <= MaxSessions
    /\ session' = GetSession
    /\ created' = IF GetSession > created THEN GetSession ELSE created
    /\ task_session' = [task_session EXCEPT ![t] = GetSession]
    /\ task_attempt' = [task_attempt EXCEPT ![t] = 0]
    /\ task_pc' = [task_pc EXCEPT ![t] = "loop"]
    /\ other_ran' = Noted(t, "started")
    /\ on_closed' = [on_closed EXCEPT ![t] = GetSession \in closed]
    /\ UNCHANGED closed
    /\ UNCHANGED <<clientVars, aggVars, botVars, dialogVars>>

\* Lines 49-55: an attempt answered with 200 or 404 ends the request.  A
\* closed session answers nothing.
TaskReturns(t) ==
    /\ task_pc[t] = "loop"
    /\ Runnable(t)
    /\ task_attempt[t] < max_retries
    /\ task_session[t] \notin closed
    /\ task_pc' = [task_pc EXCEPT ![t] = "done"]
    /\ other_ran' = Noted(t, "completed")
    /\ UNCHANGED <<session, closed, created, task_attempt, task_session, on_closed>>
    /\ UNCHANGED <<clientVars, aggVars, botVars, dialogVars>>

\* Lines 56-67: an attempt that fails (session.get on a closed session
\* raises, caught at line 63), then the delay unless it was the last turn.
TaskFails(t) ==
    /\ task_pc[t] = "loop"
    /\ Runnable(t)
    /\ task_attempt[t] < max_retries
    /\ IF task_attempt[t] < max_retries - 1
       THEN /\ task_pc' = [task_pc EXCEPT ![t] = "sleep"]
            /\ task_attempt' = task_attempt
            /\ other_ran' = [other_ran EXCEPT ![t] = "none"]
       ELSE /\ task_pc' = task_pc
            /\ task_attempt' = [task_attempt EXCEPT ![t] = task_attempt[t] + 1]
            /\ other_ran' = other_ran
    /\ UNCHANGED <<session, closed, created, task_session, on_closed>>
    /\ UNCHANGED <<clientVars, aggVars, botVars, dialogVars>>

\* Line 67: the delay is over, and line 48 issues the next attempt on the
\* session taken at line 45, whatever close() has done to it since.
TaskSleep(t) ==
    /\ task_pc[t] = "sleep"
    /\ task_pc' = [task_pc EXCEPT ![t] = "loop"]
    /\ task_attempt' = [task_attempt EXCEPT ![t] = task_attempt[t] + 1]
    /\ other_ran' = [other_ran EXCEPT ![t] = "none"]
    /\ on_closed' = [on_closed EXCEPT ![t] = task_session[t] \in closed]
    /\ UNCHANGED <<session, closed, created, task_session>>
    /\ UNCHANGED <<clientVars, aggVars, botVars, dialogVars>>

\* Line 69: the loop is over.
TaskExhausted(t) ==
    /\ task_pc[t] = "loop"
    /\ Runnable(t)
    /\ task_attempt[t] >= max_retries
    /\ task_pc' = [task_pc EXCEPT ![t] = "done"]
    /\ other_ran' = Noted(t, "completed")
    /\ UNCHANGED <<session, closed, created, task_attempt, task_session, on_closed>>
    /\ UNCHANGED <<clientVars, aggVars, botVars, dialogVars>>

\* The handler of the request ends; the task is free for the next message.
TaskEnds(t) ==
    /\ task_pc[t] = "done"
    /\ task_pc' = [task_pc EXCEPT ![t] = "off"]
    /\ task_attempt' = [task_attempt EXCEPT ![t] = 0]
    /\ task_session' = [task_session EXCEPT ![t] = 0]
    /\ on_closed' = [on_closed EXCEPT ![t] = FALSE]
    /\ UNCHANGED <<session, closed, created, other_ran>>
    /\ UNCHANGED <<clientVars, aggVars, botVars, dialogVars>>

\* Lines 190-193: close() closes the session there is, if it is open.
Close ==
    /\ SessionOpen
    /\ closed' = closed \cup {session}
    /\ UNCHANGED <<session, created, task_pc, task_attempt, task_session, other_ran, on_closed>>
    /\ UNCHANGED <<clientVars, aggVars, botVars, dialogVars>>

NextConc ==
    \/ \E t \in Tasks :
          \/ StartRequest(t)
          \/ TaskReturns(t)
          \/ TaskFails(t)
          \/ TaskSleep(t)
          \/ TaskExhausted(t)
          \/ TaskEnds(t)
    \/ Close

SpecConc == Init /\ [][NextConc]_vars

(***************************************************************************)
(* Fetch after fetch, with the handlers that change the favorites running  *)
(* for other users between the steps of a fetch.  daily_forecasts holds    *)
(* the day groups the latest call of the aggregator was left with.         *)
(***************************************************************************)
MaxCalls == 2
MaxFavorites == 6

FrameRetries == {1, 2}
FavoriteCities == {"Oslo"}

FavoritesOf(u) == IF u \in DOMAIN user_favorites THEN user_favorites[u] ELSE <<>>

InitFrame ==
    /\ max_retries \in FrameRetries
    /\ api = "none"
    /\ pc = "idle"
    /\ attempt = 0
    /\ responses = <<>>
    /\ delays = 0
    /\ data = None
    /\ result = NoneResult
    /\ shown = "nothing"
    /\ AggIdle
    /\ BotIdle
    /\ ConcIdle
    /\ DialogIdle

\* The handler has replied; the next message starts another fetch.
NextMessage ==
    /\ pc = "replied"
    /\ calls + 1 < MaxCalls
    /\ calls' = calls + 1
    /\ api' = "none"
    /\ pc' = "idle"
    /\ attempt' = 0
    /\ responses' = <<>>
    /\ delays' = 0
    /\ data' = None
    /\ result' = NoneResult
    /\ shown' = "nothing"
    /\ UNCHANGED <<max_retries, user_favorites>>
    /\ UNCHANGED <<aggVars, concVars, dialogVars>>

\* main.py lines 552-568: the add_favorite button of user u for city c.
AddFavorite(u, c) ==
    /\ LET favorites == FavoritesOf(u)
           added == IF (\A i \in DOMAIN favorites : favorites[i] # c)
                        /\ Len(favorites) < MaxFavorites
                    THEN Append(favorites, c)
                    ELSE favorites
       IN  user_favorites' = [x \in DOMAIN user_favorites \cup {u} |->
                                  IF x = u THEN added ELSE user_favorites[x]]
    /\ UNCHANGED calls
    /\ UNCHANGED <<clientVars, aggVars, concVars, dialogVars>>

\* main.py lines 361-364: clear_favorites of user u.
ClearFavorites(u) ==
    /\ u \in DOMAIN user_favorites
    /\ user_favorites' = [x \in DOMAIN user_favorites \ {u} |-> user_favorites[x]]
    /\ UNCHANGED calls
    /\ UNCHANGED <<clientVars, aggVars, concVars, dialogVars>>

NextFrame ==
    \/ \E a \in {"current", "forecast"} : Call(a)
    \/ Respond200
    \/ Respond404
    \/ RespondOtherStatus
    \/ RequestTimeout
    \/ Sleep
    \/ Exhausted
    \/ Format
    \/ Reply
    \/ NextMessage
    \/ \E u \in Users, c \in FavoriteCities : AddFavorite(u, c)
    \/ \E u \in Users : ClearFavorites(u)

SpecFrame == InitFrame /\ [][NextFrame]_vars

(***************************************************************************)
(* Properties of the client (specification Spec).                          *)
(***************************************************************************)
Returned == pc \in {"returned", "done", "replied"}
Fetched == pc \in {"done", "replied"}
Attempts == Len(responses)
AllTransient == \A i \in DOMAIN responses : responses[i].status \in Transient

\* C1: when the first attempt is answered with 404, the fetch returns the
\* not-found outcome (None) after that one attempt, with no retry and no delay.
C1_NotFoundWithoutRetry ==
    (Attempts >= 1 /\ responses[1].status = "404") =>
        /\ Attempts = 1
        /\ delays = 0
        /\ Returned
        /\ data = None
        /\ Fetched => result = NoneResult

C1_Witness ==
    /\ pc = "done"
    /\ responses = <<Answer("404", None)>>
    /\ result = NoneResult

\* A body with every key in place, in each of its samples too.
WellFormed(d) ==
    /\ d.json = "object"
    /\ d.defects = {}
    /\ \A i \in DOMAIN d.list : d.list[i].defects = {}

\* C2: a 200 answer whose body decodes ends the call: it is the last attempt,
\* it lies within the first max_retries attempts, every attempt before it
\* failed transiently and was followed by one delay, and the value returned
\* is its body; a failure without a 404 is returned only after max_retries
\* attempts.
C2_FirstSuccessReturned ==
    /\ \A i \in DOMAIN responses :
          responses[i].status = "200" =>
              /\ i = Attempts
              /\ i <= max_retries
              /\ \A j \in 1..(i - 1) : responses[j].status \in Transient
              /\ delays = i - 1
              /\ Returned
              /\ data = responses[i].body
              /\ (Fetched /\ WellFormed(data)) => result.tag = "record"
    /\ (Returned /\ AllTransient) => Attempts = max_retries

\* Attempts 1 and 2 fail, attempt 3 is answered with 200, max attempts = 3.
C2_Witness ==
    /\ max_retries = DefaultMaxRetries
    /\ pc = "done"
    /\ Attempts = 3
    /\ responses[1].status = "timeout"
    /\ responses[2].status = "500"
    /\ responses[3].status = "200"
    /\ delays = 2
    /\ result.tag = "record"

\* C3: when every attempt fails transiently, the fetch returns the failure
\* outcome after exactly max_retries attempts, with one delay after each
\* attempt but the last.
C3_ExhaustionAfterAllAttempts ==
    /\ (Returned /\ AllTransient) =>
          /\ Attempts = max_retries
          /\ delays = (IF max_retries = 0 THEN 0 ELSE max_retries - 1)
          /\ data = None
          /\ Fetched => result = NoneResult
    /\ pc = "sleep" => (Attempts < max_retries /\ delays = Attempts - 1)
    /\ (pc = "loop" /\ Attempts < max_retries) => delays = Attempts

C3_Witness ==
    /\ max_retries = DefaultMaxRetries
    /\ pc = "done"
    /\ Attempts = 3
    /\ \A i \in 1..3 : responses[i].status = "timeout"
    /\ delays = 2
    /\ result = NoneResult

RetriesExhausted == Attempts >= 1 /\ Attempts = max_retries /\ AllTransient

\* C4: after exhausted retries the handler shows the try-again-later message,
\* and it shows city-not-found only when the provider answered 404.
C4_ErrorDistinctFromNotFound ==
    pc = "replied" =>
        /\ RetriesExhausted => shown = "try-later"
        /\ (shown = "city-not-found" /\ Attempts >= 1) =>
              responses[Attempts].status = "404"

\* A current-weather body whose only defects are missing keys, one of them a
\* required key.
LacksRequiredKey(d) ==
    /\ d.json = "object"
    /\ \E x \in d.defects : x.how = "missing" /\ x.path \in RequiredKeys
    /\ \A x \in d.defects : x.how = "missing"

\* C5: a 200 current-weather body that lacks a required key (and is well
\* formed in the keys it has) makes get_current_weather return the empty
\* result {} without raising, the 200 being the last HTTP attempt; the empty
\* body gives None.
C5_MissingKeyGivesEmpty ==
    (Fetched /\ api = "current") =>
        /\ LacksRequiredKey(data) =>
              /\ result = EmptyDict
              /\ responses[Attempts] = Answer("200", data)
        /\ data = FalsyJson =>
              /\ result = NoneResult
              /\ responses[Attempts] = Answer("200", data)

C5_Witness ==
    /\ pc = "replied"
    /\ api = "current"
    /\ data.defects = {Defect("timezone", "missing")}
    /\ result = EmptyDict
    /\ Attempts = 2

\* C6: get_current_weather and get_forecast never raise to their caller.
C6_FetchNeverRaises == result.tag # "raise"

(***************************************************************************)
(* Properties of the aggregation (specification SpecAgg), stated against   *)
(* the raw sample list.                                                    *)
(***************************************************************************)
AggDone == agg_pc = "done"

DatesOf(list) == {DateKey(list[i].dt) : i \in DOMAIN list}
TempsOn(list, day) == {list[i].temp : i \in {j \in DOMAIN list : DateKey(list[j].dt) = day}}
SetMin(S) == CHOOSE x \in S : \A y \in S : x <= y
SetMax(S) == CHOOSE x \in S : \A y \in S : x >= y

\* The dates of a list in the order of their first occurrence.
RECURSIVE FirstSeen(_, _)
FirstSeen(list, seen) ==
    IF list = <<>> THEN seen
    ELSE IF \E i \in DOMAIN seen : seen[i] = DateKey(Head(list).dt)
         THEN FirstSeen(Tail(list), seen)
         ELSE FirstSeen(Tail(list), Append(seen, DateKey(Head(list).dt)))

\* The samples of a list whose date is in `days`, in their order.
RECURSIVE Restricted(_, _)
Restricted(list, days) ==
    IF list = <<>> THEN <<>>
    ELSE IF DateKey(Head(list).dt) \in days
         THEN <<Head(list)>> \o Restricted(Tail(list), days)
         ELSE Restricted(Tail(list), days)

Chronological(list) == \A i \in DOMAIN list, j \in DOMAIN list : i < j => list[i].dt <= list[j].dt

Ascending(days) ==
    \A i \in 1..(Len(days) - 1) : DateKey(days[i].date) < DateKey(days[i + 1].date)

\* What the aggregation returns for a whole list.
Aggregated(list) == FirstDays(FinalizeAll(FoldAll(<<>>, list).daily))

\* C7: every day record has temp_min <= temp_max, in the groups before the
\* rounding and in the returned records after it.
C7_MinNotAboveMax ==
    /\ \A i \in DOMAIN daily_forecasts :
          daily_forecasts[i].temp_min <= daily_forecasts[i].temp_max
    /\ AggDone => \A i \in DOMAIN forecasts : forecasts[i].temp_min <= forecasts[i].temp_max

\* A day of several samples whose extremes differ, and a day of one sample.
C7_Witness ==
    /\ AggDone
    /\ \E i \in DOMAIN forecasts :
          /\ daily_forecasts[i].temp_min < daily_forecasts[i].temp_max
          /\ forecasts[i].temp_min < forecasts[i].temp_max
    /\ \E i \in DOMAIN forecasts : forecasts[i].temp_min = forecasts[i].temp_max

\* The example of the claim: day D with 10, 12, 14, 11 degrees and day D+1
\* with 5, 7, 6 degrees.
ExampleSamples ==
    << Sample(0, 100, "clear sky", "01d", {}), Sample(0, 120, "clear sky", "01d", {}),
       Sample(1, 140, "clear sky", "01d", {}), Sample(1, 110, "clear sky", "01d", {}),
       Sample(2, 50, "clear sky", "01d", {}), Sample(2, 70, "clear sky", "01d", {}),
       Sample(3, 60, "clear sky", "01d", {}) >>

\* C8: temp_min and temp_max of a returned day are the rounded minimum and
\* maximum of the temperatures of exactly the samples of that calendar date;
\* the example list gives two records, 10/14 and 5/7.
C8_MinMaxOfTheDay ==
    /\ AggDone =>
          \A i \in DOMAIN forecasts :
              LET T == TempsOn(forecast_list, DateKey(forecasts[i].date))
              IN  /\ T # {}
                  /\ forecasts[i].temp_min = Round(SetMin(T))
                  /\ forecasts[i].temp_max = Round(SetMax(T))
    /\ LET r == Aggregated(ExampleSamples)
       IN  /\ Len(r) = 2
           /\ r[1].temp_min = 10 /\ r[1].temp_max = 14
           /\ r[2].temp_min = 5 /\ r[2].temp_max = 7

\* Two days, the first with samples of other days between its own.
C8_Witness ==
    /\ AggDone
    /\ Len(forecasts) >= 2
    /\ forecasts[1].temp_min < forecasts[1].temp_max
    /\ \E i \in DOMAIN forecast_list, j \in DOMAIN forecast_list, k \in DOMAIN forecast_list :
          /\ i < j /\ j < k
          /\ DateKey(forecast_list[i].dt) = DateKey(forecasts[1].date)
          /\ DateKey(forecast_list[j].dt) # DateKey(forecasts[1].date)
          /\ DateKey(forecast_list[k].dt) = DateKey(forecasts[1].date)
          /\ forecast_list[k].temp # forecast_list[i].temp

\* C9: the aggregation returns min(5, number of distinct dates) records, the
\* i-th one for the i-th date in order of first occurrence, and the samples
\* of a sixth or later date change nothing in them.
C9_FirstFiveDates ==
    AggDone =>
        LET order == FirstSeen(forecast_list, <<>>)
            kept == {order[i] : i \in 1..Min2(Len(order), MaxDays)}
        IN  /\ Len(order) = Cardinality(DatesOf(forecast_list))
            /\ Len(forecasts) = Min2(MaxDays, Cardinality(DatesOf(forecast_list)))
            /\ \A i \in DOMAIN forecasts : DateKey(forecasts[i].date) = order[i]
            /\ forecasts = Aggregated(Restricted(forecast_list, kept))

\* Six dates in the list, five records returned.
C9_Witness ==
    /\ AggDone
    /\ Cardinality(DatesOf(forecast_list)) = MaxDays + 1
    /\ Len(forecasts) = MaxDays

\* C10 as claimed: the records are ordered by ascending date.
C10_AscendingDates == AggDone => Ascending(forecasts)

\* C10, amended: the records are ordered by ascending date when the samples
\* arrive in time order.
C10_AscendingWhenChronological ==
    (AggDone /\ Chronological(forecast_list)) => Ascending(forecasts)

C10_Witness ==
    /\ AggDone
    /\ Chronological(forecast_list)
    /\ Len(forecasts) >= 3
    /\ Len(forecast_list) > Len(forecasts)

\* The groups that hold the i-th sample of the list: the sample is known by
\* its humidity, which no other sample of the list carries.
GroupsHolding(i) ==
    {g \in DOMAIN daily_forecasts :
        \E j \in DOMAIN daily_forecasts[g].humidity :
            daily_forecasts[g].humidity[j] = forecast_list[i].humidity}

\* C11: every sample consumed so far is folded once into exactly one group,
\* the group of its own calendar date, and two samples share a group exactly
\* when their dates are equal, whatever arrived between them.
C11_GroupedByDate ==
    /\ \A i \in DOMAIN forecast_list :
          /\ Cardinality(GroupsHolding(i)) = 1
          /\ \A g \in GroupsHolding(i) :
                daily_forecasts[g].key = DateKey(forecast_list[i].dt)
    /\ \A i \in DOMAIN forecast_list, j \in DOMAIN forecast_list :
          (GroupsHolding(i) \cap GroupsHolding(j) # {})
              <=> (DateKey(forecast_list[i].dt) = DateKey(forecast_list[j].dt))
    /\ \A g \in DOMAIN daily_forecasts :
          /\ Len(daily_forecasts[g].humidity) = Len(daily_forecasts[g].descriptions)
          /\ Len(daily_forecasts[g].humidity) = Len(daily_forecasts[g].wind_speeds)
    /\ Sum([g \in DOMAIN daily_forecasts |-> Len(daily_forecasts[g].humidity)])
          = Len(forecast_list)

\* Two samples of one date with a sample of another date between them, all
\* three folded.
C11_Witness ==
    /\ AggDone
    /\ \E i \in DOMAIN forecast_list, j \in DOMAIN forecast_list, k \in DOMAIN forecast_list :
          /\ i < j /\ j < k
          /\ DateKey(forecast_list[i].dt) = DateKey(forecast_list[k].dt)
          /\ DateKey(forecast_list[j].dt) # DateKey(forecast_list[i].dt)
          /\ GroupsHolding(i) = GroupsHolding(k)
          /\ GroupsHolding(j) # GroupsHolding(i)

\* The raw descriptions of the samples of date k, in the order of the list.
RECURSIVE DescriptionsOn(_, _)
DescriptionsOn(list, k) ==
    IF list = <<>> THEN <<>>
    ELSE IF DateKey(Head(list).dt) = k
         THEN <<Head(list).description>> \o DescriptionsOn(Tail(list), k)
         ELSE DescriptionsOn(Tail(list), k)

Occurrences(day, r) == Cardinality({p \in DOMAIN day : day[p] = r})

\* r occurs in `day` more often than any other string, or as often as the
\* most frequent other ones and before the first occurrence of each of them.
ModeEncounteredFirst(day, r) ==
    /\ \E p \in DOMAIN day : day[p] = r
    /\ \A q \in DOMAIN day :
          day[q] # r =>
              \/ Occurrences(day, r) > Occurrences(day, day[q])
              \/ /\ Occurrences(day, r) = Occurrences(day, day[q])
                 /\ \E p \in 1..(q - 1) : day[p] = r

\* C12: the description of a day record is the title-cased form of the raw
\* description that occurs most often among the samples of that date, the
\* one encountered first when several share the highest count; broken
\* clouds, broken clouds, clear sky gives Broken Clouds.
C12_MostFrequentDescription ==
    /\ AggDone =>
          \A i \in DOMAIN forecasts :
              LET day == DescriptionsOn(forecast_list, DateKey(forecasts[i].date))
              IN  \E p \in DOMAIN day :
                      /\ ModeEncounteredFirst(day, day[p])
                      /\ forecasts[i].description = Title(day[p])
    /\ LET r == Aggregated(<< Sample(0, 15, "broken clouds", "04d", {}),
                              Sample(0, 15, "broken clouds", "04d", {}),
                              Sample(1, 15, "clear sky", "01d", {}) >>)
       IN  Len(r) = 1 /\ r[1].description = "Broken Clouds"

\* A day on which two raw descriptions share the highest count, the one
\* encountered second being under another title, and the record carries the
\* title of the one encountered first.
C12_Witness ==
    /\ AggDone
    /\ \E i \in DOMAIN forecasts :
          LET day == DescriptionsOn(forecast_list, DateKey(forecasts[i].date))
          IN  \E p \in DOMAIN day, q \in DOMAIN day :
                  /\ p < q
                  /\ ModeEncounteredFirst(day, day[p])
                  /\ Occurrences(day, day[q]) = Occurrences(day, day[p])
                  /\ Title(day[q]) # Title(day[p])
                  /\ Len(day) > 2 * Occurrences(day, day[p])
                  /\ forecasts[i].description = Title(day[p])

(***************************************************************************)
(* Further properties of the client (specification Spec).                  *)
(***************************************************************************)
\* The forecast endpoint answered 200 with a body whose list is there and
\* empty.
EmptyListAnswered ==
    /\ Fetched
    /\ api = "forecast"
    /\ Attempts >= 1
    /\ responses[Attempts].status = "200"
    /\ data.json = "object"
    /\ data.list = <<>>
    /\ Defect("list", "missing") \notin data.defects

\* C13 as claimed: a 200 answer with an empty sample list makes get_forecast
\* return the failure outcome ({} or None), not a successful result.
C13_EmptyListIsFailure ==
    EmptyListAnswered => result.tag \in {"empty", "none"}

\* C13, amended: a 200 answer whose body is complete but for an empty sample
\* list makes get_forecast return a record without day summaries, which the
\* handler renders as "forecast data unavailable".
C13_EmptyListGivesNoSummaries ==
    (EmptyListAnswered /\ data.defects = {}) =>
        /\ result.tag = "record"
        /\ result.forecasts = <<>>
        /\ pc = "replied" => shown = "unavailable"

C13_Witness ==
    /\ EmptyListAnswered
    /\ data.defects = {}
    /\ pc = "replied"
    /\ shown = "unavailable"

\* get_current_weather has returned on a 200 answer whose body has every
\* key the record is built from.
CurrentFetchedWellFormed ==
    /\ Fetched
    /\ api = "current"
    /\ data.json = "object"
    /\ \A x \in data.defects : x.path \in OptionalKeys /\ x.how = "missing"

\* The percentages of a body are within the provider's contract.
InContract(v) == v.humidity \in 0..100 /\ v.clouds \in 0..100

C18_TerminatesWithinMaxRetries ==
    /\ [](Attempts <= max_retries)
    /\ (pc \in {"loop", "sleep"}) ~> Returned
    /\ []((max_retries = 0 /\ Returned) =>
            /\ Attempts = 0
            /\ delays = 0
            /\ data = None
            /\ Fetched => result = NoneResult)

\* A fetch with max_retries = 0, over without an attempt.
C18_Witness ==
    /\ max_retries = 0
    /\ pc = "replied"
    /\ api = "forecast"
    /\ Attempts = 0
    /\ result = NoneResult
    /\ shown = "city-not-found"

\* C19: an attempt answered 200 with a body that is no JSON is a failed
\* attempt like a timeout: when it was not the last turn, the delay and the
\* next attempt follow, and the call returns after it only when it was the
\* last turn, with the outcome of exhausted retries.
C19_UndecodableBodyIsRetried ==
    (Attempts >= 1 /\ responses[Attempts].status = "200-undecodable") =>
        /\ Attempts < max_retries =>
              \/ pc = "sleep" /\ delays = Attempts - 1
              \/ pc = "loop" /\ delays = Attempts /\ attempt = Attempts
        /\ Attempts = max_retries =>
              \/ pc = "loop" /\ attempt = max_retries
              \/ Returned /\ data = None
        /\ Fetched => result = NoneResult

\* A first attempt answered with an undecodable body, the delay, and a
\* second attempt whose body is returned.
C19_Witness ==
    /\ pc = "done"
    /\ Attempts = 2
    /\ responses[1].status = "200-undecodable"
    /\ responses[2].status = "200"
    /\ delays = 1
    /\ result.tag = "record"

\* A sample of the list lacks one of the keys every turn reads, and no
\* sample has a defect other than a missing key.
SomeSampleLacksKey(list) ==
    /\ \E i \in DOMAIN list : \E k \in SampleKeys : Defect(k, "missing") \in list[i].defects
    /\ \A i \in DOMAIN list : \A x \in list[i].defects : x.how = "missing"

\* C20: when a sample of the list lacks dt, main.temp, main.humidity,
\* weather[0].description or wind.speed, get_forecast returns the empty
\* result and no day at all, also when the sample is of a sixth day.
C20_AllOrNothing ==
    (/\ Fetched
     /\ api = "forecast"
     /\ data.json = "object"
     /\ SomeSampleLacksKey(data.list)) =>
        /\ result = EmptyDict
        /\ result.forecasts = <<>>

\* Five complete days and a sixth day whose only sample has no wind.speed.
C20_Witness ==
    /\ pc = "replied"
    /\ api = "forecast"
    /\ data.json = "object"
    /\ data.defects = {}
    /\ Len(data.list) = MaxDays + 1
    /\ Cardinality({DateKey(data.list[i].dt) : i \in DOMAIN data.list}) = MaxDays + 1
    /\ \A i \in 1..MaxDays : data.list[i].defects = {}
    /\ data.list[MaxDays + 1].defects = {Defect("wind.speed", "missing")}
    /\ result = EmptyDict

(***************************************************************************)
(* Properties of the session and of concurrent requests (SpecConc).        *)
(***************************************************************************)
\* Task t calls _get_session in this step.
TakesSession(t) == task_pc[t] = "off" /\ task_pc'[t] = "loop"

\* C15: whatever requests and close() calls came before, _get_session
\* returns an open session, which is the service's session; it is the
\* session there was when that one is open, and a session is constructed
\* only by a call that finds none or a closed one.
C15_SessionReturnedIsOpen ==
    [][/\ \A t \in Tasks :
            TakesSession(t) =>
                /\ task_session'[t] = session'
                /\ task_session'[t] # 0
                /\ task_session'[t] \notin closed'
                /\ SessionOpen => (session' = session /\ created' = created)
                /\ ~SessionOpen => (session' = created + 1 /\ created' = created + 1)
       /\ created' # created => \E t \in Tasks : TakesSession(t) /\ ~SessionOpen
       /\ session' # session => created' # created]_vars

\* A second session, made after the first one was closed, shared by two
\* requests.
C15_Witness ==
    /\ created = 2
    /\ session = 2
    /\ closed = {1}
    /\ \A t \in Tasks : task_pc[t] = "loop" /\ task_session[t] = 2

\* C16: while a request is in its delay, every other task can take the step
\* it is at: start a request, have an attempt answered or failed, leave the
\* loop, end.
C16_DelaySuspendsOnlyItsTask ==
    \A t \in Tasks, u \in Tasks :
        (t # u /\ task_pc[t] = "sleep") =>
            /\ (task_pc[u] = "off" /\ GetSession <= MaxSessions) => ENABLED StartRequest(u)
            /\ (task_pc[u] = "loop" /\ task_attempt[u] < max_retries) =>
                  /\ ENABLED TaskFails(u)
                  /\ task_session[u] \notin closed => ENABLED TaskReturns(u)
            /\ (task_pc[u] = "loop" /\ task_attempt[u] >= max_retries) => ENABLED TaskExhausted(u)
            /\ task_pc[u] = "done" => ENABLED TaskEnds(u)

\* A request still in the delay during which another request started and
\* completed.
C16_Witness ==
    \E t \in Tasks, u \in Tasks :
        /\ t # u
        /\ task_pc[t] = "sleep"
        /\ other_ran[t] = "completed"
        /\ task_pc[u] = "done"

(***************************************************************************)
(* Properties of a sequence of fetches (specification SpecFrame).          *)
(***************************************************************************)
\* A step of get_current_weather or get_forecast: from the call to the
\* return of the result.
FetchStep ==
    /\ pc \in {"idle", "loop", "sleep", "returned"}
    /\ pc' \in {"loop", "sleep", "returned", "done"}
    /\ <<pc, attempt, responses, data, result>>' # <<pc, attempt, responses, data, result>>

\* C17: no step of a fetch changes the configuration or any user's list of
\* favorites, whatever the fetch ends with, and the forecast returned by a
\* call is the aggregation of that call's samples alone, whatever the calls
\* before it aggregated.
C17_FetchChangesNoSharedState ==
    /\ [][FetchStep => (max_retries' = max_retries /\ user_favorites' = user_favorites)]_vars
    /\ [](Fetched /\ api = "forecast" /\ result.tag = "record"
              => result.forecasts = Aggregated(data.list))

\* A second fetch, a forecast of several days, completed while a user has
\* favorites, after a first fetch that left day groups behind.
C17_Witness ==
    /\ calls = 1
    /\ pc = "done"
    /\ api = "forecast"
    /\ result.tag = "record"
    /\ Len(result.forecasts) = 1
    /\ user_favorites # NoFavorites

\* C21: every attempt is issued on an open session, also the attempts that
\* follow a close() that ran during the delay between two attempts.
C21_NoAttemptOnClosedSession ==
    \A t \in Tasks : ~on_closed[t]

\* ---------------------------------------------------------------------
\* The dialog (main.py): dispatch of a user's messages in registration
\* order, the waiting states, the three city handlers, the inline buttons
\* and the error_handler wrapper (decorators.py).  A step of a handler is
\* what it does between two awaits.  Texts are written in ASCII:
\* "menu:..." and "button:..." stand for the keyboard captions.

WeatherStates ==
    {"waiting_for_city", "waiting_for_forecast_city", "waiting_for_favorite_city"}

\* A message: its text (has_text FALSE for a photo, a sticker, ...) and
\* whether the text starts with the favorite marker.
Text(x) == [text |-> x, has_text |-> TRUE, marker |-> FALSE]
Marked(x) == [text |-> x, has_text |-> TRUE, marker |-> TRUE]
Photo == [text |-> "None", has_text |-> FALSE, marker |-> FALSE]

OnText(h, texts) == [handler |-> h, texts |-> texts, marker |-> FALSE, state |-> "any"]
OnMarker(h) == [handler |-> h, texts |-> {}, marker |-> TRUE, state |-> "any"]
OnState(h, st) == [handler |-> h, texts |-> {}, marker |-> FALSE, state |-> st]

\* The state handlers registered before the text handlers.
RegisteredStateFirst ==
    << OnState("process_city_weather", "waiting_for_city"),
       OnState("process_city_forecast", "waiting_for_forecast_city"),
       OnState("process_add_favorite", "waiting_for_favorite_city"),
       OnText("start_handler", {"/start"}),
       OnText("help_handler", {"/help"}),
       OnText("weather_handler", {"/weather"}),
       OnText("forecast_handler", {"/forecast"}),
       OnText("menu_current_weather", {"menu:current-weather"}),
       OnText("menu_forecast", {"menu:forecast"}),
       OnText("menu_favorites", {"menu:favorites"}),
       OnText("menu_settings", {"menu:settings"}),
       OnText("menu_help", {"menu:help"}),
       OnText("menu_about", {"menu:about"}),
       OnText("back_to_menu", {"back:main-menu", "back:menu", "back:back"}),
       OnText("add_favorite_city", {"button:add-city"}),
       OnText("clear_favorites", {"button:clear-all"}),
       OnMarker("handle_favorite_city") >>

\* _setup_handlers: the handlers of messages in the order of registration.
Registered ==
    << OnText("start_handler", {"/start"}),
       OnText("help_handler", {"/help"}),
       OnText("weather_handler", {"/weather"}),
       OnText("forecast_handler", {"/forecast"}),
       OnText("menu_current_weather", {"menu:current-weather"}),
       OnText("menu_forecast", {"menu:forecast"}),
       OnText("menu_favorites", {"menu:favorites"}),
       OnText("menu_settings", {"menu:settings"}),
       OnText("menu_help", {"menu:help"}),
       OnText("menu_about", {"menu:about"}),
       OnText("back_to_menu", {"back:main-menu", "back:menu", "back:back"}),
       OnText("add_favorite_city", {"button:add-city"}),
       OnText("clear_favorites", {"button:clear-all"}),
       OnMarker("handle_favorite_city"),
       OnState("process_city_weather", "waiting_for_city"),
       OnState("process_city_forecast", "waiting_for_forecast_city"),
       OnState("process_add_favorite", "waiting_for_favorite_city") >>

\* A filter of the registration: a state filter looks at the FSM state
\* only, a text filter at the text only.
Matches(e, m, st) ==
    IF e.state # "any"
    THEN st = e.state
    ELSE m.has_text /\ (m.text \in e.texts \/ (e.marker /\ m.marker))

\* The dispatcher gives a message to the first registered handler whose
\* filter matches.
Route(m, st) ==
    LET hits == {i \in DOMAIN Registered : Matches(Registered[i], m, st)}
    IN  IF hits = {}
        THEN "unhandled"
        ELSE Registered[CHOOSE i \in hits : \A j \in hits : i <= j].handler

CityHandlers == {"process_city_weather", "process_city_forecast", "process_add_favorite"}

SetsState ==
    [weather_handler |-> "waiting_for_city",
     menu_current_weather |-> "waiting_for_city",
     forecast_handler |-> "waiting_for_forecast_city",
     menu_forecast |-> "waiting_for_forecast_city",
     add_favorite_city |-> "waiting_for_favorite_city"]

\* The FSM state a handler other than the city handlers leaves: the
\* requesting handlers set a waiting state, every other one clears it.
StateAfter(h, st) ==
    IF h = "unhandled" THEN st
    ELSE IF h \in DOMAIN SetsState THEN SetsState[h]
    ELSE "none"

\* The city names the provider knows, and the name it reports for a typed
\* text (the lookup is case-insensitive).
CityNames == <<"Oslo", "Bergen", "Paris", "Rome", "Kyiv", "Lima", "Cairo">>
ProviderName(text) == IF text = "oslo" THEN "Oslo" ELSE text

\* The record get_current_weather returns for a found city.
WeatherRecord(text) ==
    [city |-> ProviderName(text), temperature |-> 20, humidity |-> 47]

\* weather_data.get('name', city)
GetNameOr(record, default) ==
    IF "name" \in DOMAIN record THEN record["name"] ELSE default

Holds(favorites, c) == \E i \in DOMAIN favorites : favorites[i] = c

\* An add that appends without looking at the length.
VerdictUnlimited(favorites, c) ==
    IF Holds(favorites, c) THEN "duplicate" ELSE "added"

\* An add that appends without looking for the name.
VerdictRepeating(favorites, c) ==
    IF Len(favorites) < MaxFavorites THEN "added" ELSE "limit"

\* What an add of c to the list does: append, or report the limit or the
\* duplicate.
Verdict(favorites, c) ==
    IF Holds(favorites, c) THEN "duplicate"
    ELSE IF Len(favorites) < MaxFavorites THEN "added"
    ELSE "limit"

\* self.user_favorites after an add of c by user u: the list is created
\* when absent.
Added(u, c) ==
    LET favorites == FavoritesOf(u)
    IN  [x \in DOMAIN user_favorites \cup {u} |->
            IF x # u THEN user_favorites[x]
            ELSE IF Verdict(favorites, c) = "added"
                 THEN Append(favorites, c)
                 ELSE favorites]

FreeTask(t) == handlers[t].pc = "free"

Started(h, u, m) ==
    [NoHandler EXCEPT !.kind = h, !.user = u, !.city = m.text,
                      !.pc = IF m.has_text THEN "loading" ELSE "wrapper",
                      !.raised = ~m.has_text]

\* A message m of user u arrives.  The handlers that wait for nothing but
\* their own send are one step; a city handler starts as task t, and
\* message.text.strip() raises at once when the message has no text.
Dispatch(u, m, t) ==
    LET h == Route(m, fsm[u])
    IN  /\ IF h \in CityHandlers
           THEN /\ FreeTask(t)
                /\ handlers' = [handlers EXCEPT ![t] = Started(h, u, m)]
                /\ UNCHANGED <<fsm, user_favorites>>
           ELSE /\ fsm' = [fsm EXCEPT ![u] = StateAfter(h, fsm[u])]
                /\ user_favorites' =
                      IF h = "clear_favorites"
                      THEN [x \in DOMAIN user_favorites \ {u} |-> user_favorites[x]]
                      ELSE user_favorites
                /\ UNCHANGED handlers
    /\ UNCHANGED calls
    /\ UNCHANGED <<clientVars, aggVars, concVars>>

\* The dispatch of m with a history of it: the handler it was given to
\* (Routed), the waiting state it asked for (Asked), or none (Unnoted).
Routed(u, m, t) ==
    /\ Dispatch(u, m, t)
    /\ routed' = [message |-> m, handler |-> Route(m, fsm[u]), state |-> fsm[u]]
    /\ UNCHANGED pending

Asked(u, m, t) ==
    /\ Dispatch(u, m, t)
    /\ pending' = [pending EXCEPT ![u] =
          IF Route(m, fsm[u]) \in CityHandlers
          THEN "none"
          ELSE StateAfter(Route(m, fsm[u]), "none")]
    /\ UNCHANGED routed

Unnoted(u, m, t) ==
    /\ Dispatch(u, m, t)
    /\ UNCHANGED <<pending, routed>>

\* An inline button of user u is pressed: refresh_weather:<city> starts a
\* lookup, add_favorite:<city> adds at once and then answers.
Callback(u, branch, c, t) ==
    /\ FreeTask(t)
    /\ handlers' = [handlers EXCEPT ![t] =
          IF branch = "add_favorite"
          THEN [NoHandler EXCEPT !.kind = "handle_callback", !.user = u, !.city = c,
                                 !.pc = "reply", !.name = c,
                                 !.before = FavoritesOf(u), !.after = Added(u, c)[u],
                                 !.verdict = Verdict(FavoritesOf(u), c)]
          ELSE [NoHandler EXCEPT !.kind = "handle_callback", !.user = u, !.city = c,
                                 !.pc = "lookup"]]
    /\ user_favorites' = IF branch = "add_favorite" THEN Added(u, c) ELSE user_favorites
    /\ UNCHANGED <<fsm, pending, routed, calls>>
    /\ UNCHANGED <<clientVars, aggVars, concVars>>

\* The loading message is sent.
LoadingSent(t) ==
    /\ handlers[t].pc = "loading"
    /\ handlers' = [handlers EXCEPT ![t].pc = "lookup"]
    /\ UNCHANGED <<fsm, pending, routed>>
    /\ UNCHANGED <<clientVars, aggVars, botVars, concVars>>

\* The lookup of the handler ends: with a record, with nothing, or with an
\* exception.  process_add_favorite adds the name before its next await.
Lookup(t, outcome) ==
    LET h == handlers[t]
        record == WeatherRecord(h.city)
        name == GetNameOr(record, h.city)
        adds == h.kind = "process_add_favorite" /\ outcome = "record"
    IN  /\ h.pc = "lookup"
        /\ handlers' = [handlers EXCEPT ![t] =
              CASE adds -> [h EXCEPT !.pc = "reply", !.name = name,
                                     !.before = FavoritesOf(h.user),
                                     !.after = Added(h.user, name)[h.user],
                                     !.verdict = Verdict(FavoritesOf(h.user), name)]
                [] outcome = "record" /\ ~adds -> [h EXCEPT !.pc = "reply", !.verdict = "result"]
                [] outcome = "falsy" -> [h EXCEPT !.pc = "notfound"]
                [] OTHER -> [h EXCEPT !.pc = "except"]]
        /\ user_favorites' = IF adds THEN Added(h.user, name) ELSE user_favorites
        /\ UNCHANGED <<fsm, pending, routed, calls>>
        /\ UNCHANGED <<clientVars, aggVars, concVars>>

\* Where a handler goes after its reply was sent.
AfterReply(h) ==
    CASE h.kind = "handle_callback" -> "returned"
      [] h.kind = "process_add_favorite" -> "pause"
      [] OTHER -> "menu"

\* A handler that returns after its terminal reply without clearing.
AfterTerminalNoClear(h) == "returned"

AfterTerminal(h) == IF h.kind = "handle_callback" THEN "returned" ELSE "clear"

\* A send that ends a handler's step succeeds.
SendOk(t) ==
    LET h == handlers[t]
    IN  /\ h.pc \in {"reply", "menu", "notfound", "except"}
        /\ handlers' = [handlers EXCEPT ![t] =
              CASE h.pc = "reply" -> [h EXCEPT !.pc = AfterReply(h), !.reply = h.verdict]
                [] h.pc = "menu" -> [h EXCEPT !.pc = "clear"]
                [] h.pc = "notfound" ->
                      [h EXCEPT !.pc = AfterTerminal(h), !.reply = "not-found"]
                [] OTHER -> [h EXCEPT !.pc = AfterTerminal(h), !.reply = "error"]]
        /\ UNCHANGED <<fsm, pending, routed>>
        /\ UNCHANGED <<clientVars, aggVars, botVars, concVars>>

\* A send raises: before the try it reaches the wrapper, inside the try
\* the except branch, inside the except branch the wrapper again.
SendFails(t) ==
    LET h == handlers[t]
    IN  /\ h.pc \in {"loading", "reply", "menu", "notfound", "list", "except"}
        /\ handlers' = [handlers EXCEPT ![t] =
              IF h.pc \in {"loading", "except"}
              THEN [h EXCEPT !.pc = "wrapper", !.raised = TRUE]
              ELSE [h EXCEPT !.pc = "except"]]
        /\ UNCHANGED <<fsm, pending, routed>>
        /\ UNCHANGED <<clientVars, aggVars, botVars, concVars>>

\* asyncio.sleep(2) of process_add_favorite is over.
Pause(t) ==
    /\ handlers[t].pc = "pause"
    /\ handlers' = [handlers EXCEPT ![t].pc = "list"]
    /\ UNCHANGED <<fsm, pending, routed>>
    /\ UNCHANGED <<clientVars, aggVars, botVars, concVars>>

\* The favorites list is sent: self.user_favorites[user_id] raises KeyError
\* when the user has no list.
ShowList(t) ==
    LET h == handlers[t]
    IN  /\ h.pc = "list"
        /\ handlers' = [handlers EXCEPT ![t] =
              IF h.user \in DOMAIN user_favorites
              THEN [h EXCEPT !.pc = "clear", !.reply = "list"]
              ELSE [h EXCEPT !.pc = "except"]]
        /\ UNCHANGED <<fsm, pending, routed>>
        /\ UNCHANGED <<clientVars, aggVars, botVars, concVars>>

\* await state.clear() at the end of a city handler.
ClearState(t) ==
    LET h == handlers[t]
    IN  /\ h.pc = "clear"
        /\ fsm' = [fsm EXCEPT ![h.user] = "none"]
        /\ handlers' = [handlers EXCEPT ![t] = [h EXCEPT !.pc = "returned", !.cleared = TRUE]]
        /\ UNCHANGED <<pending, routed>>
        /\ UNCHANGED <<clientVars, aggVars, botVars, concVars>>

\* Whether a Message is among the positional arguments of the handler.
HasMessage(h) == h.kind # "handle_callback"

\* A wrapper whose own send is not guarded.
WrapperUnguarded(t, sent) ==
    LET h == handlers[t]
    IN  /\ h.pc = "wrapper"
        /\ HasMessage(h) \/ sent
        /\ handlers' = [handlers EXCEPT ![t] =
              [h EXCEPT !.pc = IF sent THEN "returned" ELSE "propagated",
                        !.apologies = h.apologies + 1,
                        !.reply = IF sent /\ HasMessage(h) THEN "apology" ELSE h.reply]]
        /\ UNCHANGED <<fsm, pending, routed>>
        /\ UNCHANGED <<clientVars, aggVars, botVars, concVars>>

\* error_handler has caught the exception: with a Message among the
\* arguments it sends one message, which arrives (sent) or raises and is
\* swallowed; without one it sends nothing.  Then the wrapper returns.
Wrapper(t, sent) ==
    LET h == handlers[t]
    IN  /\ h.pc = "wrapper"
        /\ HasMessage(h) \/ sent
        /\ handlers' = [handlers EXCEPT ![t] =
              [h EXCEPT !.pc = "returned",
                        !.apologies = IF HasMessage(h) THEN h.apologies + 1 ELSE h.apologies,
                        !.reply = IF sent /\ HasMessage(h) THEN "apology" ELSE h.reply]]
        /\ UNCHANGED <<fsm, pending, routed>>
        /\ UNCHANGED <<clientVars, aggVars, botVars, concVars>>

\* The task of a handler that has returned is gone.
Forget(t) ==
    /\ handlers[t].pc = "returned"
    /\ handlers' = [handlers EXCEPT ![t] = NoHandler]
    /\ UNCHANGED <<fsm, pending, routed>>
    /\ UNCHANGED <<clientVars, aggVars, botVars, concVars>>

HandlerStep(t) ==
    \/ LoadingSent(t)
    \/ \E outcome \in {"record", "falsy", "raise"} : Lookup(t, outcome)
    \/ SendOk(t)
    \/ Pause(t)
    \/ ShowList(t)
    \/ ClearState(t)

\* The dialog of one user, one handler at a time besides the handlers
\* that are a single step.
DialogUser == "u1"
DialogTask == 1
DialogMessages ==
    {Text(x) : x \in {"/start", "/weather", "/forecast", "button:add-city",
                       "button:clear-all", "oslo"}}
    \cup {Photo}

NextDialog ==
    \/ \E m \in DialogMessages : Asked(DialogUser, m, DialogTask)
    \/ \E branch \in {"refresh_weather", "add_favorite"} :
          Callback(DialogUser, branch, "Oslo", DialogTask)
    \/ HandlerStep(DialogTask)
    \/ SendFails(DialogTask)
    \/ \E sent \in BOOLEAN : Wrapper(DialogTask, sent)
    \/ Forget(DialogTask)

InitDialog ==
    /\ max_retries = DefaultMaxRetries
    /\ api = "none"
    /\ pc = "idle"
    /\ attempt = 0
    /\ responses = <<>>
    /\ delays = 0
    /\ data = None
    /\ result = NoneResult
    /\ shown = "nothing"
    /\ AggIdle
    /\ BotIdle
    /\ ConcIdle
    /\ DialogIdle

SpecDialog == InitDialog /\ [][NextDialog]_vars

\* C22: a city handler that has finished has cleared the user's dialog
\* state, whatever the outcome of its lookup and of its sends.
C22_FinishedHandlerHasClearedState ==
    \A t \in Tasks :
        (handlers[t].kind \in CityHandlers /\ handlers[t].pc = "returned")
            => handlers[t].cleared

\* Every caption and command that has a handler of its own, an unregistered
\* caption, an unknown command, plain texts, and a message without text.
\* The caption of the favorites menu button starts with the marker too.
AllMessages ==
    {Text(x) : x \in {"/start", "/help", "/weather", "/forecast",
                       "menu:current-weather", "menu:forecast",
                       "menu:settings", "menu:help", "menu:about",
                       "back:main-menu", "back:menu", "back:back",
                       "button:add-city", "button:clear-all",
                       "button:edit", "/settings", "oslo"}}
    \cup {Marked("menu:favorites"), Marked("pin Oslo"), Photo}

NextRoute ==
    \/ \E m \in AllMessages : Routed(DialogUser, m, DialogTask)
    \/ HandlerStep(DialogTask)
    \/ \E sent \in BOOLEAN : Wrapper(DialogTask, sent)
    \/ Forget(DialogTask)

SpecRoute == InitDialog /\ [][NextRoute]_vars

\* The handler the claim gives to each listed text.
OwnHandler(m) ==
    CASE m.text = "/start" -> "start_handler"
      [] m.text = "/help" -> "help_handler"
      [] m.text = "/weather" -> "weather_handler"
      [] m.text = "/forecast" -> "forecast_handler"
      [] m.text = "menu:current-weather" -> "menu_current_weather"
      [] m.text = "menu:forecast" -> "menu_forecast"
      [] m.text = "menu:favorites" -> "menu_favorites"
      [] m.text = "menu:settings" -> "menu_settings"
      [] m.text = "menu:help" -> "menu_help"
      [] m.text = "menu:about" -> "menu_about"
      [] m.text \in {"back:main-menu", "back:menu", "back:back"} -> "back_to_menu"
      [] m.text = "button:add-city" -> "add_favorite_city"
      [] m.text = "button:clear-all" -> "clear_favorites"
      [] OTHER -> "handle_favorite_city"

Listed(m) ==
    /\ m.has_text
    /\ \/ m.marker
       \/ m.text \in {"/start", "/help", "/weather", "/forecast",
                      "menu:current-weather", "menu:forecast", "menu:favorites",
                      "menu:settings", "menu:help", "menu:about",
                      "back:main-menu", "back:menu", "back:back",
                      "button:add-city", "button:clear-all"}

WaitingHandler(st) ==
    CASE st = "waiting_for_city" -> "process_city_weather"
      [] st = "waiting_for_forecast_city" -> "process_city_forecast"
      [] OTHER -> "process_add_favorite"

C24_LaterWaitingStateSurvives ==
    \A u \in Users : pending[u] # "none" => fsm[u] = pending[u]

\* The names the inline button of user u offers.  For the first user: the
\* latest name of the user's list and the first known name that is not in
\* it, so that the list grows up to the limit.  For the other user: one
\* name.
Offered(u) ==
    LET favorites == FavoritesOf(u)
        fresh == {i \in DOMAIN CityNames : ~Holds(favorites, CityNames[i])}
    IN  IF u = DialogUser
        THEN {favorites[i] : i \in {Len(favorites)} \cap DOMAIN favorites}
             \cup {CityNames[i] : i \in {j \in fresh : \A k \in fresh : j <= k}}
        ELSE {CityNames[1]}

\* One task runs the text flow, the other the inline buttons.
ButtonTask == 2

\* The favorites of two users: the inline button and clear_favorites of
\* both and the text flow of the first, with their handlers interleaved.
TypedNames == {CityNames[1], CityNames[MaxFavorites + 1]}
FavoriteMessages(u) ==
    {Text("button:clear-all")}
    \cup (IF u = DialogUser
          THEN {Text("button:add-city")} \cup {Text(c) : c \in TypedNames}
          ELSE {})

NextFav ==
    \/ \E u \in Users : \E m \in FavoriteMessages(u) : Unnoted(u, m, DialogTask)
    \/ \E u \in Users : \E c \in Offered(u) : Callback(u, "add_favorite", c, ButtonTask)
    \/ \E t \in Tasks : LoadingSent(t)
    \/ \E t \in Tasks : Lookup(t, "record")
    \/ \E t \in Tasks : SendOk(t)
    \/ \E t \in Tasks : Pause(t)
    \/ \E t \in Tasks : ShowList(t)
    \/ \E t \in Tasks : ClearState(t)
    \/ \E t \in Tasks : Forget(t)

SpecFav == InitDialog /\ [][NextFav]_vars

HasAdded(h) == h.verdict \in {"added", "limit", "duplicate"}

\* C25 as stated: no list is longer than 6, and every add on a list of 6
\* leaves the list unchanged and reports the limit.
C25_EveryAddOnFullListReportsLimit ==
    /\ \A u \in Users : Len(FavoritesOf(u)) <= 6
    /\ \A t \in Tasks :
          (HasAdded(handlers[t]) /\ Len(handlers[t].before) = 6)
              => (handlers[t].after = handlers[t].before /\ handlers[t].verdict = "limit")

\* C25: no list is longer than 6, and an add of a name that is not in the
\* list on a list of 6 leaves the list unchanged and reports the limit.
C25_NewNameOnFullListReportsLimit ==
    /\ \A u \in Users : Len(FavoritesOf(u)) <= 6
    /\ \A t \in Tasks :
          (/\ HasAdded(handlers[t])
           /\ Len(handlers[t].before) = 6
           /\ ~Holds(handlers[t].before, handlers[t].name))
              => (handlers[t].after = handlers[t].before /\ handlers[t].verdict = "limit")

C25_Witness ==
    /\ Len(FavoritesOf("u1")) = 6
    /\ Len(FavoritesOf("u2")) = 1
    /\ handlers[1].kind = "process_add_favorite" /\ handlers[1].verdict = "limit"
    /\ handlers[1].reply = "limit"
    /\ handlers[2].kind = "handle_callback" /\ handlers[2].verdict = "limit"
    /\ handlers[2].user = "u1"

\* C26: no favorites list holds a name twice, and an add of a name that is
\* in the list, by the text flow or by the inline button, leaves the list
\* unchanged and reports that the city is already a favorite.
C26_NoNameTwice ==
    /\ \A u \in Users : \A i, j \in DOMAIN FavoritesOf(u) :
          FavoritesOf(u)[i] = FavoritesOf(u)[j] => i = j
    /\ \A t \in Tasks :
          (HasAdded(handlers[t]) /\ Holds(handlers[t].before, handlers[t].name))
              => (handlers[t].after = handlers[t].before /\ handlers[t].verdict = "duplicate")

C26_Witness ==
    /\ handlers[1].kind = "process_add_favorite" /\ handlers[1].reply = "duplicate"
    /\ handlers[2].kind = "handle_callback" /\ handlers[2].reply = "duplicate"
    /\ Len(FavoritesOf("u1")) = 6

\* C27: the name process_add_favorite adds after a successful validation
\* lookup is the city name of the provider's record.
C27_StoredNameIsProviderName ==
    \A t \in Tasks :
        (handlers[t].kind = "process_add_favorite" /\ HasAdded(handlers[t]))
            => handlers[t].name = WeatherRecord(handlers[t].city).city

\* C28: a process_add_favorite that has added a city and has come to its
\* end has shown the favorites list and no error.
C28_AddEndsWithList ==
    \A t \in Tasks :
        (/\ handlers[t].kind = "process_add_favorite"
         /\ handlers[t].verdict = "added"
         /\ handlers[t].pc \in {"clear", "returned"})
            => handlers[t].reply = "list"

\* C29: an exception that reaches error_handler never leaves it: the
\* wrapper returns, after one attempt to send the error message when the
\* handler has a Message argument and after none for a callback query,
\* whether that send arrives or raises.
C29_WrapperNeverPropagates ==
    \A t \in Tasks :
        /\ handlers[t].pc # "propagated"
        /\ ~handlers[t].raised => handlers[t].apologies = 0
        /\ (handlers[t].raised /\ handlers[t].pc = "returned")
              => handlers[t].apologies = (IF HasMessage(handlers[t]) THEN 1 ELSE 0)
        /\ (handlers[t].raised /\ handlers[t].pc # "returned")
              => (handlers[t].pc = "wrapper" /\ handlers[t].apologies = 0)

C29_Witness ==
    /\ handlers[DialogTask].kind = "process_city_forecast"
    /\ handlers[DialogTask].raised
    /\ handlers[DialogTask].pc = "returned"
    /\ handlers[DialogTask].apologies = 1
    /\ handlers[DialogTask].reply = "none"

\* The dialog when every lookup ends and every send arrives: the texts of
\* one user, two handlers at a time, every started handler step taken.
TextMessages == DialogMessages \ {Photo}

FirstFree(t) == FreeTask(t) /\ \A x \in Tasks : x < t => ~FreeTask(x)

NextReliable ==
    \/ \E t \in Tasks, m \in TextMessages : FirstFree(t) /\ Unnoted(DialogUser, m, t)
    \/ \E t \in Tasks : HandlerStep(t)
    \/ \E t \in Tasks : Forget(t)

SpecReliable ==
    InitDialog /\ [][NextReliable]_vars /\ \A t \in Tasks : WF_vars(HandlerStep(t))

TerminalReplies == {"result", "not-found", "error"}

\* C30: a city name submitted in the weather or the forecast waiting state
\* eventually gets the result, the not-found text or the error text, and
\* the user's dialog is then idle, when every lookup ends and every send
\* arrives.
C30_EveryCityGetsTerminalReply ==
    \A t \in Tasks :
        (/\ handlers[t].pc = "loading"
         /\ handlers[t].kind \in {"process_city_weather", "process_city_forecast"})
        ~> (/\ handlers[t].pc = "returned"
            /\ handlers[t].reply \in TerminalReplies
            /\ fsm[DialogUser] = "none")

C30_Witness ==
    /\ handlers[2].kind = "process_city_forecast"
    /\ handlers[2].pc = "returned"
    /\ handlers[2].reply = "error"
    /\ handlers[2].cleared
    /\ fsm[DialogUser] = "none"
    /\ handlers[1].kind = "process_city_weather"
    /\ handlers[1].pc = "lookup"

====
